---- MODULE Spec2Model ----
(***************************************************************************)
(* FinTrack: NorisbankPDFParser (src/FinTrack/parser/file_handling.py).    *)
(*                                                                         *)
(* Texts are sequences of one-character strings.  Money is kept in whole   *)
(* cents; the only place where the binary floating point representation of *)
(* the balances decides an outcome is the end balance validation, which is *)
(* modelled exactly (see FloatErr).  Coordinates are whole document units. *)
(* A Python None is the empty sequence <<>>, a present value v is <<v>>.   *)
(***************************************************************************)
EXTENDS Integers, Sequences, FiniteSets, TLC

VARIABLES
    pc,               \* position inside the operation under way
    df,               \* the text boxes of the document, in extraction order
    categories,       \* self.categories, in configured order
    start_balance,    \* <<>> or <<cents>>
    end_balance,      \* <<>> or <<cents>>
    layout,           \* booking_x0, valuta_x0, amount_x1_credit, amount_x1_debit
    transactions,     \* the list built by the row loop
    df_transactions,  \* the returned frame, one record per row
    warnings,         \* the warnings printed
    error,            \* the exception that left extract_data, or "none"
    text,             \* the argument of categorize_transaction
    category          \* what categorize_transaction returned, <<>> before

vars == <<pc, df, categories, start_balance, end_balance, layout, transactions,
          df_transactions, warnings, error, text, category>>

-----------------------------------------------------------------------------
(* Characters and strings *)

Digits == {"0", "1", "2", "3", "4", "5", "6", "7", "8", "9"}

DigitVal(c) ==
    CASE c = "0" -> 0 [] c = "1" -> 1 [] c = "2" -> 2 [] c = "3" -> 3
      [] c = "4" -> 4 [] c = "5" -> 5 [] c = "6" -> 6 [] c = "7" -> 7
      [] c = "8" -> 8 [] c = "9" -> 9

UpperChars == <<"A", "B", "C", "D", "E", "F", "G", "H", "I", "J", "K", "L", "M",
                "N", "O", "P", "Q", "R", "S", "T", "U", "V", "W", "X", "Y", "Z">>
LowerChars == <<"a", "b", "c", "d", "e", "f", "g", "h", "i", "j", "k", "l", "m",
                "n", "o", "p", "q", "r", "s", "t", "u", "v", "w", "x", "y", "z">>

\* str.lower() on one character
LowerChar(c) ==
    IF \E i \in 1..Len(UpperChars) : UpperChars[i] = c
    THEN LowerChars[CHOOSE i \in 1..Len(UpperChars) : UpperChars[i] = c]
    ELSE c

\* str.lower()
Lower(s) == [i \in 1..Len(s) |-> LowerChar(s[i])]

\* Python's  needle in hay  on strings
Contains(hay, needle) ==
    \E i \in 0..(Len(hay) - Len(needle)) :
        SubSeq(hay, i + 1, i + Len(needle)) = needle

\* Series.str.contains(pat, case=False) for a literal pattern
ContainsNoCase(hay, needle) == Contains(Lower(hay), Lower(needle))

IsDigitAt(s, i) == i >= 1 /\ i <= Len(s) /\ s[i] \in Digits
IsCharAt(s, i, c) == i >= 1 /\ i <= Len(s) /\ s[i] = c

-----------------------------------------------------------------------------
(* categorize_transaction *)

\* any(keyword in text_lower for keyword in category['keywords'])
CategoryMatches(cat, text_lower) ==
    \E k \in 1..Len(cat.keywords) : Contains(text_lower, cat.keywords[k])

RECURSIVE CategorizeFrom(_, _, _)
CategorizeFrom(cats, text_lower, i) ==
    IF i > Len(cats) THEN "Personal"
    ELSE IF CategoryMatches(cats[i], text_lower) THEN cats[i].name
    ELSE CategorizeFrom(cats, text_lower, i + 1)

\* the loop as it would run if the last matching category won
RECURSIVE CategorizeLastFrom(_, _, _)
CategorizeLastFrom(cats, text_lower, i) ==
    IF i < 1 THEN "Personal"
    ELSE IF CategoryMatches(cats[i], text_lower) THEN cats[i].name
    ELSE CategorizeLastFrom(cats, text_lower, i - 1)

categorize_last_match(cats, t) == CategorizeLastFrom(cats, Lower(t), Len(cats))

categorize_transaction(cats, t) == CategorizeFrom(cats, Lower(t), 1)

-----------------------------------------------------------------------------
(* The regular expressions of the parser, applied with re.search *)

WhiteSpace == {" ", "\t", "\n"}

Min(S) == CHOOSE x \in S : \A y \in S : x <= y
Max(S) == CHOOSE x \in S : \A y \in S : x >= y

\* the first index from i on that holds no white space:  \s*  consumes up to it
RECURSIVE SkipSpaces(_, _)
SkipSpaces(s, i) ==
    IF i <= Len(s) /\ s[i] \in WhiteSpace THEN SkipSpaces(s, i + 1) ELSE i

\* DATE_PATTERN = \d{2}\.\d{2}\.\s*2024  matched with its first character at i
DateMatchAt(s, i) ==
    /\ IsDigitAt(s, i) /\ IsDigitAt(s, i + 1) /\ IsCharAt(s, i + 2, ".")
    /\ IsDigitAt(s, i + 3) /\ IsDigitAt(s, i + 4) /\ IsCharAt(s, i + 5, ".")
    /\ LET j == SkipSpaces(s, i + 6)
       IN  /\ IsCharAt(s, j, "2") /\ IsCharAt(s, j + 1, "0")
           /\ IsCharAt(s, j + 2, "2") /\ IsCharAt(s, j + 3, "4")

\* str.contains(DATE_PATTERN, regex=True)
DATE_PATTERN(s) == \E i \in 1..Len(s) : DateMatchAt(s, i)

\* the length of the run of digits that starts at i, counted up to 4
DigitRun(s, i) ==
    IF ~IsDigitAt(s, i) THEN 0
    ELSE IF ~IsDigitAt(s, i + 1) THEN 1
    ELSE IF ~IsDigitAt(s, i + 2) THEN 2
    ELSE IF ~IsDigitAt(s, i + 3) THEN 3
    ELSE 4

\* (?:\d{1,3}\.)*\d{1,3},\d{2}  matched from i: the index of its last character,
\* or 0 when it does not match there
RECURSIVE NumberEnd(_, _)
NumberEnd(s, i) ==
    LET run == DigitRun(s, i)
    IN  IF run = 0 \/ run = 4 THEN 0
        ELSE IF /\ IsCharAt(s, i + run, ",")
                /\ IsDigitAt(s, i + run + 1)
                /\ IsDigitAt(s, i + run + 2)
             THEN i + run + 2
        ELSE IF IsCharAt(s, i + run, ".") THEN NumberEnd(s, i + run + 1)
        ELSE 0

\* re.search(\s*([signs])\s*((?:\d{1,3}\.)*\d{1,3},\d{2}), s): <<>> when there
\* is no match, else the groups (sign, amount) of the leftmost match
AmountSearch(s, signs) ==
    LET hits == {p \in 1..Len(s) :
                    s[p] \in signs /\ NumberEnd(s, SkipSpaces(s, p + 1)) # 0}
    IN  IF hits = {} THEN <<>>
        ELSE LET p == Min(hits)
                 q == SkipSpaces(s, p + 1)
             IN  <<[sign |-> s[p], amount |-> SubSeq(s, q, NumberEnd(s, q))]>>

AMOUNT_PATTERN(s) == AmountSearch(s, {"+", "-"})
AMOUNT_PATTERN_CREDIT(s) == AmountSearch(s, {"+"})
AMOUNT_PATTERN_DEBIT(s) == AmountSearch(s, {"-"})

\* str.replace(old, '') and str.replace(old, new) for single characters
Remove(s, old) == SelectSeq(s, LAMBDA c : c # old)
Replace(s, old, new) == [i \in 1..Len(s) |-> IF s[i] = old THEN new ELSE s[i]]

\* amount.replace('.', '').replace(',', '.')
Normalise(amount) == Replace(Remove(amount, "."), ",", ".")

RECURSIVE DigitsValue(_)
DigitsValue(s) ==
    IF s = <<>> THEN 0
    ELSE 10 * DigitsValue(SubSeq(s, 1, Len(s) - 1)) + DigitVal(s[Len(s)])

\* float(s) and pd.to_numeric(s) of a decimal with at most two places, in cents
ToNumeric(s) ==
    LET neg  == Len(s) > 0 /\ s[1] = "-"
        body == IF neg THEN Tail(s) ELSE s
        dots == {i \in 1..Len(body) : body[i] = "."}
        dot  == IF dots = {} THEN Len(body) + 1 ELSE Min(dots)
        frac == SubSeq(body, dot + 1, Len(body))
        mag  == 100 * DigitsValue(SubSeq(body, 1, dot - 1))
                + (IF Len(frac) = 1 THEN 10 * DigitsValue(frac) ELSE DigitsValue(frac))
    IN  IF neg THEN -mag ELSE mag

DaysInMonth(m) ==
    IF m = 2 THEN 29 ELSE IF m \in {4, 6, 9, 11} THEN 30 ELSE 31

\* pd.to_datetime(s, format='%d.%m.%Y') for a text that matched DATE_PATTERN:
\* <<>> when the text does not conform (ValueError), else the date as yyyymmdd
to_datetime(s) ==
    IF /\ Len(s) = 10
       /\ \A i \in {1, 2, 4, 5, 7, 8, 9, 10} : s[i] \in Digits
       /\ s[3] = "." /\ s[6] = "."
    THEN LET d == DigitsValue(SubSeq(s, 1, 2))
             m == DigitsValue(SubSeq(s, 4, 5))
             y == DigitsValue(SubSeq(s, 7, 10))
         IN  IF m \in 1..12 /\ d >= 1 /\ d <= DaysInMonth(m)
             THEN <<(y * 100 + m) * 100 + d>>
             ELSE <<>>
    ELSE <<>>

\* text.replace('\n', '').strip() of a text box that is already stripped
BookingDateText(s) == Remove(s, "\n")

-----------------------------------------------------------------------------
(* extract_balance *)

Y_COORDINATE_TOLERANCE == 20

EUR == <<"E", "U", "R">>
AlterSaldo == <<"A", "l", "t", "e", "r", " ", "S", "a", "l", "d", "o">>
NeuerSaldo == <<"N", "e", "u", "e", "r", " ", "S", "a", "l", "d", "o">>

\* the row labels of a frame, in order; a boolean mask selects among them
Indices(d) == [i \in 1..Len(d) |-> i]

\* df[df['text'].str.contains('^EUR$', regex=True, na=False)]
eur_rows(d) == SelectSeq(Indices(d), LAMBDA i : d[i].text = EUR)

\* the text boxes whose y0 lies within Y_COORDINATE_TOLERANCE of the EUR row's
nearby_texts(d, eur_row) ==
    SelectSeq(Indices(d),
              LAMBDA i : /\ d[i].y0 >= eur_row.y0 - Y_COORDINATE_TOLERANCE
                         /\ d[i].y0 <= eur_row.y0 + Y_COORDINATE_TOLERANCE)

\* the text boxes on the EUR row's y0 and y1 whose text holds an amount
potential_amounts(d, eur_row) ==
    SelectSeq(Indices(d),
              LAMBDA i : /\ d[i].y0 = eur_row.y0
                         /\ d[i].y1 = eur_row.y1
                         /\ AMOUNT_PATTERN(d[i].text) # <<>>)

\* one pass of the loop over eur_rows: bal is (start_balance, end_balance)
BalanceStep(d, eur_row, bal) ==
    LET near     == nearby_texts(d, eur_row)
        is_start == \E k \in 1..Len(near) : ContainsNoCase(d[near[k]].text, AlterSaldo)
        is_end   == \E k \in 1..Len(near) : ContainsNoCase(d[near[k]].text, NeuerSaldo)
        amounts  == potential_amounts(d, eur_row)
    IN  IF amounts = <<>> THEN bal
        ELSE LET match   == AMOUNT_PATTERN(d[amounts[1]].text)[1]
                 value   == ToNumeric(Normalise(match.amount))
                 balance == IF match.sign = "-" THEN -value ELSE value
             IN  IF is_start THEN [bal EXCEPT !.start = <<balance>>]
                 ELSE IF is_end THEN [bal EXCEPT !.end = <<balance>>]
                 ELSE bal

RECURSIVE BalanceLoop(_, _, _, _)
BalanceLoop(d, rows, k, bal) ==
    IF k > Len(rows) THEN bal
    ELSE BalanceLoop(d, rows, k + 1, BalanceStep(d, d[rows[k]], bal))

extract_balance(d) == BalanceLoop(d, eur_rows(d), 1, [start |-> <<>>, end |-> <<>>])

-----------------------------------------------------------------------------
(* The columns: value_counts().nlargest(2).index of a column of coordinates *)

Column(d, rows, field) == [k \in 1..Len(rows) |-> d[rows[k]][field]]

Range(s) == {s[i] : i \in 1..Len(s)}
Count(s, v) == Cardinality({i \in 1..Len(s) : s[i] = v})

\* The index sets nlargest(2) may return: the two most frequent values, or the
\* only one.  value_counts orders equally frequent values by a sort that is not
\* stable, so among equally frequent values any may be taken.
TopTwo(s) ==
    {S \in SUBSET Range(s) :
        /\ Cardinality(S) = (IF Cardinality(Range(s)) >= 2 THEN 2
                             ELSE Cardinality(Range(s)))
        /\ \A a \in S : \A b \in Range(s) \ S : Count(s, a) >= Count(s, b)}

date_entries(d) == SelectSeq(Indices(d), LAMBDA i : DATE_PATTERN(d[i].text))
amount_entries_credit(d) ==
    SelectSeq(Indices(d), LAMBDA i : AMOUNT_PATTERN_CREDIT(d[i].text) # <<>>)
amount_entries_debit(d) ==
    SelectSeq(Indices(d), LAMBDA i : AMOUNT_PATTERN_DEBIT(d[i].text) # <<>>)

-----------------------------------------------------------------------------
(* The rows: one transaction per booking date *)

x_tolerance == 10

\* df['page'].unique(): the pages in the order in which they first appear
unique_pages(d) ==
    LET firsts == SelectSeq([i \in 1..Len(d) |-> i],
                            LAMBDA i : \A j \in 1..(i - 1) : d[j].page # d[i].page)
    IN  [k \in 1..Len(firsts) |-> d[firsts[k]].page]

\* the rows of one page at booking_x0 whose text holds a date
booking_dates(d, lay, page) ==
    SelectSeq(Indices(d),
              LAMBDA i : /\ d[i].page = page
                         /\ d[i].x0 = lay.booking_x0
                         /\ DATE_PATTERN(d[i].text))

\* the booking dates of all pages in the order of the two loops
RECURSIVE AnchorsFrom(_, _, _, _)
AnchorsFrom(d, lay, pages, k) ==
    IF k > Len(pages) THEN <<>>
    ELSE booking_dates(d, lay, pages[k]) \o AnchorsFrom(d, lay, pages, k + 1)

Anchors(d, lay) == AnchorsFrom(d, lay, unique_pages(d), 1)

\* page_df[page_df['y1'] == date_row['y1']]
same_y1_entries(d, date_row) ==
    SelectSeq(Indices(d), LAMBDA i : d[i].page = date_row.page /\ d[i].y1 = date_row.y1)

\* the test that takes an amount for one of the two amount columns
InAmountColumn(entry, lay) ==
    \/ (entry.x1 - lay.amount_x1_credit) < x_tolerance
    \/ (entry.x1 - lay.amount_x1_debit) < x_tolerance

\* one pass of the loop over the entries of a row
EntryStep(cats, lay, entry, transaction) ==
    LET amount_match == AMOUNT_PATTERN(entry.text)
    IN  IF entry.x0 = lay.valuta_x0 THEN transaction
        ELSE IF amount_match # <<>> /\ InAmountColumn(entry, lay)
        THEN IF amount_match[1].sign = "+"
             THEN [transaction EXCEPT !.credit = <<Normalise(amount_match[1].amount)>>]
             ELSE [transaction EXCEPT
                      !.debit = <<<<amount_match[1].sign>> \o Normalise(amount_match[1].amount)>>]
        ELSE [transaction EXCEPT
                 !.purpose = <<categorize_transaction(cats, entry.text)>>]

RECURSIVE EntryLoop(_, _, _, _, _, _)
EntryLoop(d, cats, lay, entries, k, transaction) ==
    IF k > Len(entries) THEN transaction
    ELSE EntryLoop(d, cats, lay, entries, k + 1,
                   EntryStep(cats, lay, d[entries[k]], transaction))

\* the transaction of one booking date
Transaction(d, cats, lay, date_row) ==
    EntryLoop(d, cats, lay, same_y1_entries(d, date_row), 1,
              [booking_date |-> BookingDateText(date_row.text),
               purpose      |-> <<>>,
               debit        |-> <<>>,
               credit       |-> <<>>,
               currency     |-> "EUR"])

Transactions(d, cats, lay) ==
    LET anchors == Anchors(d, lay)
    IN  [k \in 1..Len(anchors) |-> Transaction(d, cats, lay, d[anchors[k]])]

-----------------------------------------------------------------------------
(* Dates, amounts, order and running balance *)

BALANCE_TOLERANCE == 500

Zero == <<"0">>

\* fillna('0')
fillna(v) == IF v = <<>> THEN Zero ELSE v[1]

\* round(to_numeric(credit.fillna('0')) + to_numeric(debit.fillna('0')), 2)
Amount(t) == ToNumeric(fillna(t.credit)) + ToNumeric(fillna(t.debit))

\* sort_values('date'): the orders the sort may leave the rows in.  The default
\* kind is quicksort, which is not stable: rows of one date come in any order.
sort_values(dates) ==
    {p \in Permutations(1..Len(dates)) :
        \A i \in 1..Len(dates) : \A j \in 1..Len(dates) :
            i < j => dates[p[i]] <= dates[p[j]]}

RECURSIVE cumsum(_, _)
cumsum(amounts, k) == IF k = 0 THEN 0 ELSE cumsum(amounts, k - 1) + amounts[k]

\* the running balance as it would be without the start balance
RunningBalanceFromZero(start, amounts) ==
    [k \in 1..Len(amounts) |-> cumsum(amounts, k)]

\* round(start_balance + df_transactions['amount'].cumsum(), 2)
RunningBalance(start, amounts) ==
    [k \in 1..Len(amounts) |-> start + cumsum(amounts, k)]

-----------------------------------------------------------------------------
(* abs(calculated_end - end_balance) > BALANCE_TOLERANCE on binary doubles *)
(*                                                                         *)
(* calculated_end is round(x, 2) and end_balance is float(text), so each   *)
(* is the double D(n) nearest to n/100 for a whole number n of cents.  For *)
(* 2^e <= |n|/100 < 2^(e+1) that double is m * 2^(e-52), m the whole       *)
(* number nearest to q = |n| * 2^(52-e) / 100 (q never lies half way, as   *)
(* |n| * 2^(52-e) is a multiple of 4).  With r the remainder of            *)
(* |n| * 2^(52-e) by 100, m - q is -r/100 or (100-r)/100, hence            *)
(*     FloatErr(n) = (D(n) - n/100) * 100 * 2^59                           *)
(* is a small whole number, computed below with Binade(n) = e + 7.         *)

RECURSIVE Pow2(_)
Pow2(k) == IF k = 0 THEN 1 ELSE 2 * Pow2(k - 1)

RECURSIVE Pow2Mod100(_)
Pow2Mod100(k) == IF k = 0 THEN 1 ELSE (2 * Pow2Mod100(k - 1)) % 100

Abs(x) == IF x < 0 THEN -x ELSE x

RECURSIVE BinadeFrom(_, _)
BinadeFrom(n, k) == IF n * 128 < 200 * Pow2(k) THEN k ELSE BinadeFrom(n, k + 1)

Binade(n) == BinadeFrom(n, 0)

FloatErr(n) ==
    IF n = 0 THEN 0
    ELSE LET k   == Binade(Abs(n))
             r   == ((Abs(n) % 100) * Pow2Mod100(59 - k)) % 100
             err == IF r > 50 THEN 100 - r ELSE -r
         IN  (IF n < 0 THEN -1 ELSE 1) * err * Pow2(k)

\* The exact difference of the two doubles is (d * 2^59 + FloatErr(a) -
\* FloatErr(b)) / (100 * 2^59) with d = a - b in cents; the subtraction rounds
\* it to the nearest double (ties to even), and 5.0 is followed by 5.0 + 2^-50.
\* So the result exceeds 5.0 exactly when the exact difference exceeds
\* 5.0 + 2^-51, that is 500 * 2^59 + 100 * 2^8 in the scaled unit.  When d is
\* not 500 cents the errors, far below a cent, cannot change the outcome.
BalanceDiffers(calculated_end, end_bal) ==
    LET d == calculated_end - end_bal
    IN  IF Abs(d) # BALANCE_TOLERANCE THEN Abs(d) > BALANCE_TOLERANCE
        ELSE (IF d < 0 THEN -1 ELSE 1)
                 * (FloatErr(calculated_end) - FloatErr(end_bal)) > 100 * Pow2(8)

-----------------------------------------------------------------------------
(* extract_data, in the order of its statements *)

NoStartBalance == "Warning: No start balance found!"
EndBalanceDiffers == "Warning: Calculated end balance differs from actual end balance!"

Raise(exception) ==
    /\ pc' = "raised"
    /\ error' = exception

\* df = pd.DataFrame(text_boxes); the balances; the default start balance
LocateBalances ==
    /\ pc = "start"
    /\ IF df = <<>>
       THEN /\ Raise("KeyError")
            /\ UNCHANGED <<start_balance, end_balance, warnings>>
       ELSE LET bal == extract_balance(df)
            IN  /\ end_balance' = bal.end
                /\ IF bal.start = <<>>
                   THEN /\ start_balance' = <<0>>
                        /\ warnings' = warnings \cup {NoStartBalance}
                   ELSE /\ start_balance' = bal.start
                        /\ UNCHANGED warnings
                /\ pc' = "columns"
                /\ UNCHANGED error
    /\ UNCHANGED <<df, categories, layout, transactions, df_transactions, text, category>>

\* the four column coordinates; max() and min() of an empty index raise
LocateColumns ==
    /\ pc = "columns"
    /\ LET credit == Column(df, amount_entries_credit(df), "x1")
           debit  == Column(df, amount_entries_debit(df), "x1")
           dates  == Column(df, date_entries(df), "x0")
       IN  IF credit = <<>> \/ debit = <<>> \/ dates = <<>>
           THEN /\ Raise("ValueError")
                /\ UNCHANGED layout
           ELSE /\ \E C \in TopTwo(credit) : \E D \in TopTwo(debit) :
                   \E X \in TopTwo(dates) :
                       layout' = [amount_x1_credit |-> Max(C),
                                  amount_x1_debit  |-> Max(D),
                                  booking_x0       |-> Min(X),
                                  valuta_x0        |-> Max(X)]
                /\ pc' = "rows"
                /\ UNCHANGED error
    /\ UNCHANGED <<df, categories, start_balance, end_balance, transactions,
                   df_transactions, warnings, text, category>>

\* the loops over the pages, the booking dates and the entries of each row
ReconstructRows ==
    /\ pc = "rows"
    /\ transactions' = Transactions(df, categories, layout)
    /\ pc' = "reconcile"
    /\ UNCHANGED <<df, categories, start_balance, end_balance, layout,
                   df_transactions, warnings, error, text, category>>

\* the frame of the transactions: dates, amounts, order, balances, validation
Reconcile ==
    /\ pc = "reconcile"
    /\ LET n     == Len(transactions)
           dates == [k \in 1..n |-> to_datetime(transactions[k].booking_date)]
       IN  IF n = 0
           THEN /\ Raise("KeyError")
                /\ UNCHANGED <<df_transactions, warnings>>
           ELSE IF \E k \in 1..n : dates[k] = <<>>
           THEN /\ Raise("ValueError")
                /\ UNCHANGED <<df_transactions, warnings>>
           ELSE \E p \in sort_values([k \in 1..n |-> dates[k][1]]) :
                  LET amounts  == [i \in 1..n |-> Amount(transactions[p[i]])]
                      balances == RunningBalance(start_balance[1], amounts)
                  IN  /\ df_transactions' =
                            [i \in 1..n |->
                                [index    |-> p[i],
                                 purpose  |-> transactions[p[i]].purpose,
                                 debit    |-> transactions[p[i]].debit,
                                 credit   |-> transactions[p[i]].credit,
                                 currency |-> transactions[p[i]].currency,
                                 date     |-> dates[p[i]][1],
                                 year     |-> dates[p[i]][1] \div 10000,
                                 month    |-> (dates[p[i]][1] \div 100) % 100,
                                 quarter  |-> (((dates[p[i]][1] \div 100) % 100) - 1) \div 3 + 1,
                                 amount   |-> amounts[i],
                                 balance  |-> balances[i]]]
                      /\ warnings' =
                            IF /\ end_balance # <<>>
                               /\ BalanceDiffers(balances[n], end_balance[1])
                            THEN warnings \cup {EndBalanceDiffers}
                            ELSE warnings
                      /\ pc' = "done"
                      /\ UNCHANGED error
    /\ UNCHANGED <<df, categories, start_balance, end_balance, layout,
                   transactions, text, category>>

\* extract_balance called on its own
ExtractBalance ==
    /\ pc = "balance"
    /\ start_balance' = extract_balance(df).start
    /\ end_balance' = extract_balance(df).end
    /\ pc' = "returned"
    /\ UNCHANGED <<df, categories, layout, transactions, df_transactions,
                   warnings, error, text, category>>

\* categorize_transaction called on its own
Categorize ==
    /\ pc = "categorize"
    /\ category' = <<categorize_transaction(categories, text)>>
    /\ pc' = "returned"
    /\ UNCHANGED <<df, categories, start_balance, end_balance, layout,
                   transactions, df_transactions, warnings, error, text>>

-----------------------------------------------------------------------------
(* The documents and configurations the operations are run on *)

MaxRows == 2      \* transaction rows of a document
MaxBoxes == 3     \* text boxes of a document handed to extract_balance alone
MaxTextLen == 3   \* length of a text handed to categorize_transaction alone
MaxRules == 2     \* categories of a configuration handed to it

Date0101 == <<"0", "1", ".", "0", "1", ".", "2", "0", "2", "4">>
Date0201 == <<"0", "2", ".", "0", "1", ".", "2", "0", "2", "4">>
DateSpaced == <<"0", "1", ".", "0", "1", ".", " ", "2", "0", "2", "4">>
Debit200 == <<"-", " ", "2", ",", "0", "0">>
Debit195 == <<"-", " ", "1", ",", "9", "5">>
Credit001 == <<"+", " ", "0", ",", "0", "1">>
Credit123456 == <<"+", " ", "1", ".", "2", "3", "4", ",", "5", "6">>
Credit1000 == <<"+", " ", "1", "0", ",", "0", "0">>
Credit305 == <<"+", " ", "3", ",", "0", "5">>
Credit300 == <<"+", " ", "3", ",", "0", "0">>
Debit305 == <<"-", " ", "3", ",", "0", "5">>
AmazonMarketplace == <<"A", "m", "a", "z", "o", "n", " ", "M", "a", "r", "k", "e", "t", "p", "l", "a", "c", "e">>
ReweMarkt == <<"R", "E", "W", "E", " ", "M", "a", "r", "k", "t">>
AlterSaldoLower == <<"a", "l", "t", "e", "r", " ", "s", "a", "l", "d", "o", ":">>
amazon == <<"a", "m", "a", "z", "o", "n">>
amaz == <<"a", "m", "a", "z">>
rewe == <<"r", "e", "w", "e">>

Box(page, x0, y0, x1, y1, t) ==
    [page |-> page, x0 |-> x0, y0 |-> y0, x1 |-> x1, y1 |-> y1, text |-> t]

\* One cell of a statement row with top edge y1: booking date (A), value date
\* (V), purpose (P, Q), debit (D, E) and credit (C, K) in their columns, a
\* credit far left of both amount columns (L), a debit far right of them (R).
Cell(kind, page, y1, date) ==
    CASE kind = "A" -> Box(page, 50, y1 - 10, 90, y1, date)
      [] kind = "V" -> Box(page, 100, y1 - 10, 140, y1, date)
      [] kind = "P" -> Box(page, 150, y1 - 10, 300, y1, AmazonMarketplace)
      [] kind = "Q" -> Box(page, 150, y1 - 10, 260, y1, ReweMarkt)
      [] kind = "D" -> Box(page, 370, y1 - 10, 400, y1, Debit200)
      [] kind = "E" -> Box(page, 370, y1 - 10, 400, y1, Debit195)
      [] kind = "C" -> Box(page, 470, y1 - 10, 500, y1, Credit001)
      [] kind = "K" -> Box(page, 440, y1 - 10, 500, y1, Credit123456)
      [] kind = "L" -> Box(page, 270, y1 - 10, 300, y1, Credit001)
      [] kind = "R" -> Box(page, 570, y1 - 10, 600, y1, Debit200)

RowKinds ==
    { [cells |-> <<"A", "V", "P", "D">>,      date |-> Date0101],
      [cells |-> <<"A", "V", "P", "D">>,      date |-> Date0201],
      [cells |-> <<"A", "V", "P", "C">>,      date |-> Date0101],
      [cells |-> <<"A", "P", "E">>,           date |-> Date0101],
      [cells |-> <<"P", "A", "V", "D">>,      date |-> Date0101],
      [cells |-> <<"A", "V", "P", "C", "D">>, date |-> Date0101],
      [cells |-> <<"A", "V", "L", "P">>,      date |-> Date0101],
      [cells |-> <<"A", "V", "P", "R">>,      date |-> Date0101],
      [cells |-> <<"A", "V", "P", "Q">>,      date |-> Date0201],
      [cells |-> <<"A", "V", "Q", "K">>,      date |-> Date0201],
      [cells |-> <<"A", "V", "P", "D">>,      date |-> DateSpaced] }

Row(kind, page, y1) ==
    [i \in 1..Len(kind.cells) |-> Cell(kind.cells[i], page, y1, kind.date)]

\* the declared balance of a statement: label, currency and amount on one line
BalanceLine(label, page, y0, amount) ==
    << Box(page, 50, y0, 120, y0 + 10, label),
       Box(page, 420, y0, 440, y0 + 10, EUR),
       Box(page, 470, y0, 500, y0 + 10, amount) >>

Headers == { <<>>, BalanceLine(AlterSaldo, 1, 700, Credit1000) }

Footers(page) ==
    { <<>>,
      BalanceLine(NeuerSaldo, page, 100, Credit305),
      BalanceLine(NeuerSaldo, page, 100, Credit300) }

\* the rows of a statement, one below the other, the last of them on lastPage
RECURSIVE RowsFrom(_, _, _)
RowsFrom(kinds, lastPage, k) ==
    IF k > Len(kinds) THEN <<>>
    ELSE Row(kinds[k], IF k = Len(kinds) THEN lastPage ELSE 1, 600 - 20 * k)
             \o RowsFrom(kinds, lastPage, k + 1)

SeqsUpTo(S, n) == UNION {[1..m -> S] : m \in 0..n}

\* a statement: the declared start balance, the rows, the declared end balance
Document(h, kinds, lastPage, f) == h \o RowsFrom(kinds, lastPage, 1) \o f

Configuration ==
    << [name |-> "Shopping",  keywords |-> <<amazon>>],
       [name |-> "Groceries", keywords |-> <<rewe>>] >>

Idle ==
    /\ start_balance = <<>>
    /\ end_balance = <<>>
    /\ layout = [amount_x1_credit |-> 0, amount_x1_debit |-> 0,
                 booking_x0 |-> 0, valuta_x0 |-> 0]
    /\ transactions = <<>>
    /\ df_transactions = <<>>
    /\ warnings = {}
    /\ error = "none"
    /\ category = <<>>

Init ==
    /\ pc = "start"
    /\ \E lastPage \in {1, 2} : \E h \in Headers : \E f \in Footers(lastPage) :
       \E kinds \in SeqsUpTo(RowKinds, MaxRows) :
           df = Document(h, kinds, lastPage, f)
    /\ categories = Configuration
    /\ text = <<>>
    /\ Idle

Next == LocateBalances \/ LocateColumns \/ ReconstructRows \/ Reconcile

Spec == Init /\ [][Next]_vars

\* extract_balance on its own, on any few boxes of two pages
BalanceBoxes ==
    { Box(1, 420, 700, 440, 710, EUR),
      Box(1, 470, 700, 500, 710, Credit1000),
      Box(1, 50, 715, 120, 725, AlterSaldo),
      Box(2, 50, 700, 120, 710, AlterSaldo),
      Box(1, 50, 730, 120, 740, AlterSaldoLower),
      Box(1, 50, 680, 120, 690, NeuerSaldo),
      Box(2, 50, 700, 120, 710, NeuerSaldo),
      Box(2, 420, 700, 440, 710, EUR),
      Box(2, 470, 700, 500, 710, Debit305) }

InitBalance ==
    /\ pc = "balance"
    /\ df \in SeqsUpTo(BalanceBoxes, MaxBoxes)
    /\ categories = Configuration
    /\ text = <<>>
    /\ Idle

NextBalance == ExtractBalance

SpecBalance == InitBalance /\ [][NextBalance]_vars

\* categorize_transaction on its own, on short texts and few categories
Letters == {"A", "a", "m", "z"}

Texts == SeqsUpTo(Letters, MaxTextLen) \cup {AmazonMarketplace, ReweMarkt}

Rules ==
    { [name |-> "R1", keywords |-> <<amazon>>],
      [name |-> "R2", keywords |-> <<amaz>>],
      [name |-> "R3", keywords |-> << <<"z", "z">>, <<"a", "m">> >>],
      [name |-> "R4", keywords |-> << <<"A">>, <<"m", "a">> >>],
      [name |-> "R5", keywords |-> <<>>] }

InitCategorize ==
    /\ pc = "categorize"
    /\ df = <<>>
    /\ categories \in SeqsUpTo(Rules, MaxRules)
    /\ text \in Texts
    /\ Idle

NextCategorize == Categorize

SpecCategorize == InitCategorize /\ [][NextCategorize]_vars

-----------------------------------------------------------------------------
(* Properties *)

Returned == pc = "done"
Raised == pc = "raised"

\* the value in cents of the one of credit and debit that a row holds
ExactlyOneSet(t) == (t.credit = <<>>) # (t.debit = <<>>)
ValueSet(t) == IF t.credit # <<>> THEN ToNumeric(t.credit[1]) ELSE ToNumeric(t.debit[1])

RECURSIVE SumOfValues(_, _)
SumOfValues(rows, k) ==
    IF k = 0 THEN 0 ELSE SumOfValues(rows, k - 1) + ValueSet(rows[k])

\* the start balance the statement declares, 0 when it declares none
DeclaredStart == IF extract_balance(df).start = <<>> THEN 0 ELSE extract_balance(df).start[1]

\* C1: in the returned, date-sorted sequence the balance at every position k is
\* the start balance (0 when none is located) plus the amounts of the first k
\* transactions, each of which holds exactly one of credit and debit; so the
\* last balance is the start balance plus the sum of all amounts.
C1_RunningBalance ==
    Returned =>
        \A k \in 1..Len(df_transactions) :
            /\ \A i \in 1..(k - 1) : df_transactions[i].date <= df_transactions[k].date
            /\ (\A i \in 1..k : ExactlyOneSet(df_transactions[i]))
                  => df_transactions[k].balance
                         = DeclaredStart + SumOfValues(df_transactions, k)

C1_Witness ==
    /\ Returned
    /\ Len(df_transactions) >= 2
    /\ extract_balance(df).start = <<1000>>
    /\ \A i \in 1..Len(df_transactions) : ExactlyOneSet(df_transactions[i])
    /\ df_transactions[1].index = 2
    /\ df_transactions[Len(df_transactions)].balance
           = 1000 + SumOfValues(df_transactions, Len(df_transactions))

\* C2: the sort by date is stable: of two returned transactions with the same
\* date the one whose booking date was met first comes first.
C2_StableSort ==
    Returned =>
        \A i \in 1..Len(df_transactions) : \A j \in 1..Len(df_transactions) :
            (i < j /\ df_transactions[i].date = df_transactions[j].date)
                => df_transactions[i].index < df_transactions[j].index

\* the entries of the row of the k-th transaction, as indices of df
RowOf(k) ==
    LET a == df[Anchors(df, layout)[k]]
    IN  {i \in 1..Len(df) : df[i].page = a.page /\ df[i].y1 = a.y1}

\* C3: no reconstructed transaction holds both a debit and a credit; one holds
\* neither only if no amount of its row was taken for an amount column.
C3_DebitXorCredit ==
    \A k \in 1..Len(transactions) :
        /\ ~(transactions[k].credit # <<>> /\ transactions[k].debit # <<>>)
        /\ (transactions[k].credit = <<>> /\ transactions[k].debit = <<>>)
              => \A i \in RowOf(k) :
                    \/ df[i].x0 = layout.valuta_x0
                    \/ AMOUNT_PATTERN(df[i].text) = <<>>
                    \/ ~InAmountColumn(df[i], layout)

\* C4: a document without a booking date (no text box holds a date, or there
\* is no text box at all) ends with an empty sequence returned and no error.
C4_EmptyDocument ==
    (date_entries(df) = <<>> /\ (Returned \/ Raised))
        => (Returned /\ df_transactions = <<>> /\ error = "none")

\* C5: the warning about the end balance is printed exactly when an end
\* balance was located and it differs from the last computed balance by more
\* than 5.00; at a difference of exactly 5.00 there is no warning.
C5_WarningIffBeyondTolerance ==
    Returned =>
        ((EndBalanceDiffers \in warnings)
            <=> /\ end_balance # <<>>
                /\ Abs(df_transactions[Len(df_transactions)].balance - end_balance[1])
                       > BALANCE_TOLERANCE)

\* C6: categorize_transaction returns the name of the first category, in the
\* configured order, one of whose keywords occurs in the lower-cased text, and
\* 'Personal' when there is none; with R1 (amazon) before R2 (amaz) the text
\* 'Amazon Marketplace' gives R1.
C6_FirstMatchWins ==
    pc = "returned" /\ category # <<>> =>
        LET matching == {i \in 1..Len(categories) :
                            \E k \in 1..Len(categories[i].keywords) :
                                Contains(Lower(text), categories[i].keywords[k])}
        IN  /\ matching = {} => category = <<"Personal">>
            /\ matching # {} =>
                  /\ category = <<categories[Min(matching)].name>>
                  /\ \A i \in matching :
                        i > Min(matching) /\ categories[i].name # categories[Min(matching)].name
                            => category # <<categories[i].name>>

C6_Witness ==
    /\ pc = "returned"
    /\ text = AmazonMarketplace
    /\ Len(categories) = 2
    /\ categories[1] = [name |-> "R1", keywords |-> <<amazon>>]
    /\ categories[2] = [name |-> "R2", keywords |-> <<amaz>>]
    /\ category = <<"R1">>

\* C7: the purpose of a transaction is the category of the last entry of its
\* row, the booking date itself left out, that is neither in the value date
\* column nor an amount of an amount column; the booking date never sets it.
C7_PurposeFromLastTextEntry ==
    \A k \in 1..Len(transactions) :
        LET anchor  == Anchors(df, layout)[k]
            purpose == {i \in RowOf(k) :
                           /\ i # anchor
                           /\ df[i].x0 # layout.valuta_x0
                           /\ ~(AMOUNT_PATTERN(df[i].text) # <<>>
                                    /\ InAmountColumn(df[i], layout))}
        IN  transactions[k].purpose =
                IF purpose = {} THEN <<>>
                ELSE <<categorize_transaction(categories, df[Max(purpose)].text)>>

\* within 10 units of the right edge of the credit or of the debit column
WithinTolerance(x1) ==
    \/ Abs(x1 - layout.amount_x1_credit) <= x_tolerance
    \/ Abs(x1 - layout.amount_x1_debit) <= x_tolerance

\* C8: a credit or debit is set only from an entry of the row whose text holds
\* an amount of that sign and whose right edge is within 10 units of the credit
\* or debit column edge; an amount further away, on either side, sets neither.
C8_AmountOnlyWithinTolerance ==
    \A k \in 1..Len(transactions) :
        /\ transactions[k].credit # <<>> =>
              \E i \in RowOf(k) :
                  /\ AMOUNT_PATTERN(df[i].text) # <<>>
                  /\ AMOUNT_PATTERN(df[i].text)[1].sign = "+"
                  /\ WithinTolerance(df[i].x1)
        /\ transactions[k].debit # <<>> =>
              \E i \in RowOf(k) :
                  /\ AMOUNT_PATTERN(df[i].text) # <<>>
                  /\ AMOUNT_PATTERN(df[i].text)[1].sign = "-"
                  /\ WithinTolerance(df[i].x1)

\* an EUR box with a box on its own page, at most 20 units above or below,
\* whose text holds the label
LabelledOnPage(label) ==
    \E i \in 1..Len(df) : \E j \in 1..Len(df) :
        /\ df[i].text = EUR
        /\ df[j].page = df[i].page
        /\ Abs(df[j].y0 - df[i].y0) <= Y_COORDINATE_TOLERANCE
        /\ ContainsNoCase(df[j].text, label)

\* C9: extract_balance returns a start (end) balance only if some EUR box has
\* 'Alter Saldo' ('Neuer Saldo') within 20 units of its y0 on its own page; a
\* label on another page never makes a balance.
C9_LabelOnSamePage ==
    pc = "returned" =>
        /\ start_balance # <<>> => LabelledOnPage(AlterSaldo)
        /\ end_balance # <<>> => LabelledOnPage(NeuerSaldo)

\* C10: a document that has a booking date and all of whose dates are valid
\* day.month.year dates, whatever amounts it holds, ends with exactly one
\* returned transaction per booking date at booking_x0.
C10_OneTransactionPerBookingDate ==
    ( /\ Returned \/ Raised
      /\ date_entries(df) # <<>>
      /\ \A i \in 1..Len(df) :
            DATE_PATTERN(df[i].text) => to_datetime(BookingDateText(df[i].text)) # <<>> )
        => /\ Returned
           /\ Len(df_transactions) = Len(Anchors(df, layout))
           /\ \A k \in 1..Len(Anchors(df, layout)) :
                 \E i \in 1..Len(df_transactions) : df_transactions[i].index = k

====
